---- MODULE Spec2Model ----
(***************************************************************************)
(* A model of ArchiveBot's seesaw pipeline tasks                           *)
(* (pipeline/archivebot/seesaw/tasks.py): the retryable tasks with their   *)
(* IOLoop retry timers, the heartbeat PeriodicCallback, the path and       *)
(* metadata tasks, and the control service they talk to.                   *)
(*                                                                         *)
(* Every work item is a record: its property dict (a function whose DOMAIN *)
(* is the set of keys present), its flags, its output log, the IOLoop      *)
(* timeouts that hold a reference to it, and its PeriodicCallback.         *)
(* Strings are sequences of tokens, so that '%' formatting, suffixing and  *)
(* slicing are computed rather than assumed.                               *)
(***************************************************************************)
EXTENDS Naturals, Sequences, FiniteSets, TLC

VARIABLES items, control

vars == <<items, control>>

----------------------------------------------------------------------------
(* Bounds of the model *)

\* how many answers of the control service may be "connection lost" or
\* "no job" for one item before the service answers
MaxFailures == 3

\* the items in the pipeline; items share nothing but the control service
Items == {1}

----------------------------------------------------------------------------
(* Program constants *)

\* RetryableTask.retry_delay
DefaultRetryDelay == 5

\* GetItemFromQueue.__init__(..., retry_delay=5)
ReserveRetryDelay == 5

----------------------------------------------------------------------------
(* The jobs the control service can hand out *)

Jobs ==
  { [ident |-> <<"a", "b", "c", "1", "2", "3">>, fetch_depth |-> <<"shallow">>,
     log_key |-> <<"log:abc123">>, queued_at |-> <<"1000">>, slug |-> <<"example">>,
     started_by |-> <<"alice">>, started_in |-> <<"#chan">>, url |-> <<"http://x">>],
    [ident |-> <<"x", "y", "z">>, fetch_depth |-> <<"5">>,
     log_key |-> <<"log:xyz">>, queued_at |-> <<"2000">>, slug |-> <<"other">>,
     started_by |-> <<"bob">>, started_in |-> <<"#chan">>, url |-> <<"http://y">>] }

\* what time.strftime("%Y%m%d-%H%M%S") can return
Timestamps == { <<"20130101-000000">>, <<"20130101-000001">> }

PipelineId == <<"pipeline-1">>

----------------------------------------------------------------------------
(* The item's property dict *)

Has(it, k) == k \in DOMAIN it.props

Put(it, k, v) ==
  [it EXCEPT !.props = [x \in (DOMAIN it.props) \cup {k} |->
                          IF x = k THEN v ELSE it.props[x]]]

Del(it, k) ==
  [it EXCEPT !.props = [x \in (DOMAIN it.props) \ {k} |-> it.props[x]]]

log_output(it, line) == [it EXCEPT !.log = Append(@, line)]

PutAll(it, rec) ==
  [it EXCEPT !.props = [x \in (DOMAIN it.props) \cup (DOMAIN rec) |->
                          IF x \in DOMAIN rec THEN rec[x] ELSE it.props[x]]]

\* one line of the item's output log
Line(text, task, delay, arg) ==
  [text |-> text, task |-> task, delay |-> delay, arg |-> arg]

\* s[0:n] of a Python string
Slice(s, n) == SubSeq(s, 1, IF Len(s) < n THEN Len(s) ELSE n)

----------------------------------------------------------------------------
(* The pipeline: the tasks in the order the items pass through them *)

Pipeline ==
  << "GetItemFromQueue", "StartHeartbeat", "SetFetchDepth", "PreparePaths",
     "RelabelIfAborted", "WriteInfo", "MoveFiles", "SetWarcFileSizeInRedis",
     "StopHeartbeat", "MarkItemAsDone" >>

NumTasks == Len(Pipeline)

RetryableTasks ==
  { "GetItemFromQueue", "RelabelIfAborted", "SetWarcFileSizeInRedis",
    "MarkItemAsDone" }

SimpleTasks == { Pipeline[n] : n \in 1..NumTasks } \ RetryableTasks

\* the task the item is in
TaskOf(it) == IF it.task \in 1..NumTasks THEN Pipeline[it.task] ELSE "none"

\* the position of a task in the pipeline
Position(name) == CHOOSE n \in 1..NumTasks : Pipeline[n] = name

\* Task.start_item: the item is running in this task
start_item(self, it) == [it EXCEPT !.status = "running"]

\* Task.complete_item: the pipeline hands the item to the next task, or the
\* item is complete after the last one
complete_item(self, it) ==
  [it EXCEPT !.task = @ + 1,
             !.status = IF it.task = NumTasks THEN "completed" ELSE "queued"]

\* Task.fail_item: the item's pipeline run ends as failed
fail_item(self, it) == [it EXCEPT !.status = "failed"]

----------------------------------------------------------------------------
(* RetryableTask *)

\* a cancelable = True written on the base class
cancelable_everywhere(self) == self \in RetryableTasks

cancelable(self) == self = "GetItemFromQueue"

retry_delay(self) ==
  IF self = "GetItemFromQueue" THEN ReserveRetryDelay ELSE DefaultRetryDelay

\* the retry is added to the IOLoop twice
schedule_retry_twice(self, it) ==
  LET t == [callback |-> "retry", task |-> self, delay |-> retry_delay(self)]
  IN  [it EXCEPT !.may_be_canceled = cancelable(self),
                 !.timeouts = Append(Append(@, t), t),
                 !.scheduled = @ + 2]

\* the item may be canceled while it waits, whatever the task
schedule_retry_cancelable(self, it) ==
  [it EXCEPT !.may_be_canceled = TRUE,
             !.timeouts = Append(@, [callback |-> "retry", task |-> self,
                                     delay |-> retry_delay(self)]),
             !.scheduled = @ + 1]

\* scheduled counts the timeouts added for the item
schedule_retry(self, it) ==
  [it EXCEPT !.may_be_canceled = cancelable(self),
             !.timeouts = Append(@, [callback |-> "retry", task |-> self,
                                     delay |-> retry_delay(self)]),
             !.scheduled = @ + 1]

notify_retry(reason, self, it) ==
  log_output(it, Line(reason, self, retry_delay(self), <<"Retrying">>))

notify_connection_error(self, it) ==
  notify_retry("Lost connection to ArchiveBot controller", self, it)

----------------------------------------------------------------------------
(* TargetPathMixin *)

set_target_paths(it) ==
  LET w == Put(it, "target_warc_file",
               it.props.data_dir \o <<"/">> \o it.props.warc_file_base
                 \o <<".warc.gz">>)
  IN  Put(w, "target_info_file",
          w.props.data_dir \o <<"/">> \o w.props.warc_file_base \o <<".json">>)

----------------------------------------------------------------------------
(* process of the retryable tasks.  res is what the control call did: *)
(* kind "connlost" is ConnectionError, kind "error" any other exception,   *)
(* which leaves process at the call with nothing assigned.                 *)

\* the retry is scheduled whenever reserve_job returns, job or not
GetItemFromQueue_process_no_else(self, it, res) ==
  CASE res.kind = "job" ->
         schedule_retry(self,
           complete_item(self,
             log_output(
               PutAll(it, [fetch_depth |-> res.job.fetch_depth,
                           ident       |-> res.job.ident,
                           log_key     |-> res.job.log_key,
                           pipeline_id |-> PipelineId,
                           queued_at   |-> res.job.queued_at,
                           slug        |-> res.job.slug,
                           started_by  |-> res.job.started_by,
                           started_in  |-> res.job.started_in,
                           url         |-> res.job.url]),
               Line("Received item", self, 0, res.job.ident))))
    [] res.kind = "none" -> schedule_retry(self, it)
    [] res.kind = "connlost" ->
         schedule_retry(self, notify_connection_error(self, it))
    [] OTHER -> it

\* pipeline_id is assigned before the test for a job
GetItemFromQueue_process_early_assign(self, it, res) ==
  CASE res.kind = "job" ->
         complete_item(self,
           log_output(
             PutAll(it, [fetch_depth |-> res.job.fetch_depth,
                         ident       |-> res.job.ident,
                         log_key     |-> res.job.log_key,
                         pipeline_id |-> PipelineId,
                         queued_at   |-> res.job.queued_at,
                         slug        |-> res.job.slug,
                         started_by  |-> res.job.started_by,
                         started_in  |-> res.job.started_in,
                         url         |-> res.job.url]),
             Line("Received item", self, 0, res.job.ident)))
    [] res.kind = "none" ->
         schedule_retry(self, Put(it, "pipeline_id", PipelineId))
    [] res.kind = "connlost" ->
         schedule_retry(self, notify_connection_error(self, it))
    [] OTHER -> it

\* a retry notice is logged when reserve_job returns no job
GetItemFromQueue_process_logs_none(self, it, res) ==
  CASE res.kind = "job" ->
         complete_item(self,
           log_output(
             PutAll(it, [fetch_depth |-> res.job.fetch_depth,
                         ident       |-> res.job.ident,
                         log_key     |-> res.job.log_key,
                         pipeline_id |-> PipelineId,
                         queued_at   |-> res.job.queued_at,
                         slug        |-> res.job.slug,
                         started_by  |-> res.job.started_by,
                         started_in  |-> res.job.started_in,
                         url         |-> res.job.url]),
             Line("Received item", self, 0, res.job.ident)))
    [] res.kind = "none" ->
         schedule_retry(self, notify_retry("No item received", self, it))
    [] res.kind = "connlost" ->
         schedule_retry(self, notify_connection_error(self, it))
    [] OTHER -> it

GetItemFromQueue_process(self, it, res) ==
  CASE res.kind = "job" ->
         complete_item(self,
           log_output(
             PutAll(it, [fetch_depth |-> res.job.fetch_depth,
                         ident       |-> res.job.ident,
                         log_key     |-> res.job.log_key,
                         pipeline_id |-> PipelineId,
                         queued_at   |-> res.job.queued_at,
                         slug        |-> res.job.slug,
                         started_by  |-> res.job.started_by,
                         started_in  |-> res.job.started_in,
                         url         |-> res.job.url]),
             Line("Received item", self, 0, res.job.ident)))
    [] res.kind = "none" -> schedule_retry(self, it)
    [] res.kind = "connlost" ->
         schedule_retry(self, notify_connection_error(self, it))
    [] OTHER -> it

\* the base filename gets its suffix before is_aborted has answered, so an
\* attempt that loses the connection has already changed it
RelabelIfAborted_process_eager(self, it, res) ==
  LET b == Put(it, "warc_file_base", it.props.warc_file_base \o <<"-aborted">>)
  IN  CASE res.kind = "ok" ->
             IF res.aborted
             THEN LET c == set_target_paths(Put(b, "aborted", TRUE))
                  IN  complete_item(self,
                        log_output(c, Line("Adjusted target WARC path to", self,
                                           0, c.props.target_warc_file)))
             ELSE complete_item(self, it)
        [] res.kind = "connlost" ->
             schedule_retry(self, notify_connection_error(self, b))
        [] OTHER -> it

\* the target paths are not recomputed after the base filename changed
RelabelIfAborted_process_stale(self, it, res) ==
  CASE res.kind = "ok" ->
         IF res.aborted
         THEN LET a == Put(it, "aborted", TRUE)
                  b == Put(a, "warc_file_base",
                           a.props.warc_file_base \o <<"-aborted">>)
              IN  complete_item(self,
                    log_output(b, Line("Adjusted target WARC path to", self, 0,
                                       b.props.target_warc_file)))
         ELSE complete_item(self, it)
    [] res.kind = "connlost" ->
         schedule_retry(self, notify_connection_error(self, it))
    [] OTHER -> it

RelabelIfAborted_process(self, it, res) ==
  CASE res.kind = "ok" ->
         IF res.aborted
         THEN LET a == Put(it, "aborted", TRUE)
                  b == Put(a, "warc_file_base",
                           a.props.warc_file_base \o <<"-aborted">>)
                  c == set_target_paths(b)
              IN  complete_item(self,
                    log_output(c, Line("Adjusted target WARC path to", self, 0,
                                       c.props.target_warc_file)))
         ELSE complete_item(self, it)
    [] res.kind = "connlost" ->
         schedule_retry(self, notify_connection_error(self, it))
    [] OTHER -> it

\* complete_item is called in a finally clause
SetWarcFileSizeInRedis_process_finally(self, it, res) ==
  CASE res.kind = "ok" -> complete_item(self, it)
    [] res.kind = "connlost" ->
         complete_item(self,
           schedule_retry(self, notify_connection_error(self, it)))
    [] OTHER -> it

SetWarcFileSizeInRedis_process(self, it, res) ==
  CASE res.kind = "ok" -> complete_item(self, it)
    [] res.kind = "connlost" ->
         schedule_retry(self, notify_connection_error(self, it))
    [] OTHER -> it

MarkItemAsDone_process(self, it, res) ==
  CASE res.kind = "ok" -> complete_item(self, it)
    [] res.kind = "connlost" ->
         schedule_retry(self, notify_connection_error(self, it))
    [] OTHER -> it

\* self.process(item) of a retryable task; calls counts its invocations
process(self, it, res) ==
  LET called == [it EXCEPT !.calls = @ + 1] IN
  CASE self = "GetItemFromQueue" -> GetItemFromQueue_process(self, called, res)
    [] self = "RelabelIfAborted" -> RelabelIfAborted_process(self, called, res)
    [] self = "SetWarcFileSizeInRedis" ->
         SetWarcFileSizeInRedis_process(self, called, res)
    [] self = "MarkItemAsDone" -> MarkItemAsDone_process(self, called, res)

RetryableTask_enqueue(self, it, res) ==
  process(self,
          log_output(start_item(self, it), Line("Starting", self, 0, <<>>)),
          res)

\* the retry does not look at item.canceled
retry_ignores_canceled(self, it, res) ==
  process(self, [it EXCEPT !.may_be_canceled = FALSE], res)

\* the retry leaves item.may_be_canceled as schedule_retry set it
retry_keeps_flag(self, it, res) ==
  IF ~it.canceled THEN process(self, it, res) ELSE it

\* the retry gives up after two failed attempts
retry_capped(self, it, res) ==
  IF ~it.canceled /\ it.failures < 2
  THEN process(self, [it EXCEPT !.may_be_canceled = FALSE], res)
  ELSE it

\* the timeout's callback: functools.partial(self.retry, item)
retry(self, it, res) ==
  IF ~it.canceled
  THEN process(self, [it EXCEPT !.may_be_canceled = FALSE], res)
  ELSE it

----------------------------------------------------------------------------
(* process of the simple tasks *)

\* the PeriodicCallback is created, stored on the item and started
StartHeartbeat_process(it) ==
  [Put(it, "heartbeat", "cb") EXCEPT !.periodic = "running"]

\* the special case tests for depth zero instead of "shallow"
SetFetchDepth_process_zero(it) ==
  LET depth == it.props.fetch_depth
  IN  IF depth = <<"0">>
      THEN PutAll(it, [recursive |-> <<>>, level |-> <<>>, depth |-> <<>>])
      ELSE PutAll(it, [recursive |-> <<"--recursive">>, level |-> <<"--level">>,
                       depth |-> depth])

SetFetchDepth_process(it) ==
  LET depth == it.props.fetch_depth
  IN  IF depth = <<"shallow">>
      THEN PutAll(it, [recursive |-> <<>>, level |-> <<>>, depth |-> <<>>])
      ELSE PutAll(it, [recursive |-> <<"--recursive">>, level |-> <<"--level">>,
                       depth |-> depth])

\* now is what time.strftime returns
PreparePaths_process(it, now) ==
  LET item_dir  == it.props.data_dir \o <<"/">> \o it.props.ident
      last_five == Slice(it.props.ident, 5)
      a == Put(it, "item_dir", item_dir)
      b == Put(a, "warc_file_base",
               a.props.slug \o <<"-">> \o now \o <<"-">> \o last_five)
      c == Put(b, "source_warc_file",
               b.props.item_dir \o <<"/">> \o b.props.warc_file_base
                 \o <<".warc.gz">>)
      d == Put(c, "source_info_file",
               c.props.item_dir \o <<"/">> \o c.props.warc_file_base
                 \o <<".json">>)
      e == Put(d, "cookie_jar", d.props.item_dir \o <<"/">> \o <<"cookies.txt">>)
  IN  set_target_paths(e)

\* the aborted key is read without the test for its presence
WriteInfo_process_no_default(it) ==
  LET aborted == Has(it, "aborted")
      base == [fetch_depth |-> it.props.fetch_depth,
               pipeline_id |-> it.props.pipeline_id,
               queued_at   |-> it.props.queued_at,
               started_by  |-> it.props.started_by,
               started_in  |-> it.props.started_in,
               url         |-> it.props.url]
  IN  Put(it, "info",
          IF aborted
          THEN [k \in DOMAIN base \cup { "aborted" } |->
                  IF k = "aborted" THEN it.props.aborted ELSE base[k]]
          ELSE base)

WriteInfo_process(it) ==
  LET aborted == IF Has(it, "aborted") THEN it.props.aborted ELSE FALSE
  IN  Put(it, "info",
          [aborted     |-> aborted,
           fetch_depth |-> it.props.fetch_depth,
           pipeline_id |-> it.props.pipeline_id,
           queued_at   |-> it.props.queued_at,
           started_by  |-> it.props.started_by,
           started_in  |-> it.props.started_in,
           url         |-> it.props.url])

\* the renames and the rmtree change no attribute of the item
MoveFiles_process(it) == it

\* the handle is deleted but the PeriodicCallback is not stopped
StopHeartbeat_process_no_stop(self, it) ==
  IF Has(it, "heartbeat")
  THEN Del(it, "heartbeat")
  ELSE log_output(it, Line("Warning: couldn't find a heartbeat to stop",
                           self, 0, <<>>))

StopHeartbeat_process(self, it) ==
  IF Has(it, "heartbeat")
  THEN [Del(it, "heartbeat") EXCEPT !.periodic = "stopped"]
  ELSE log_output(it, Line("Warning: couldn't find a heartbeat to stop",
                           self, 0, <<>>))

\* what process leaves behind when it returns (res.kind = "ok") or raises
\* (res.kind = "error": os.makedirs, open or os.rename failed)
simple_process(self, it, res) ==
  CASE self = "StartHeartbeat" -> StartHeartbeat_process(it)
    [] self = "SetFetchDepth" -> SetFetchDepth_process(it)
    [] self = "PreparePaths" ->
         IF res.kind = "ok" THEN PreparePaths_process(it, res.now) ELSE it
    [] self = "WriteInfo" -> WriteInfo_process(it)
    [] self = "MoveFiles" -> MoveFiles_process(it)
    [] self = "StopHeartbeat" -> StopHeartbeat_process(self, it)

\* seesaw's SimpleTask.enqueue: process, then complete_item, or fail_item
\* when process raised
SimpleTask_enqueue(self, it, res) ==
  LET started == log_output(start_item(self, it), Line("Starting", self, 0, <<>>))
      after   == simple_process(self, started, res)
  IN  IF res.kind = "ok"
      THEN complete_item(self, log_output(after, Line("Finished", self, 0, <<>>)))
      ELSE fail_item(self, log_output(after, Line("Failed", self, 0, <<>>)))

----------------------------------------------------------------------------
(* The control service *)

\* a control call that fails consumes the item's failure budget
MayFail(it) == it.failures < MaxFailures

\* what the control call of a retryable task can do
Answers(self, it) ==
  (IF self = "GetItemFromQueue"
   THEN { [kind |-> "job", job |-> j] : j \in control.queue }
          \cup (IF MayFail(it) THEN { [kind |-> "none"] } ELSE {})
   ELSE IF self = "RelabelIfAborted"
   THEN { [kind |-> "ok", aborted |-> b] : b \in BOOLEAN }
   ELSE { [kind |-> "ok"] })
  \cup (IF MayFail(it) THEN { [kind |-> "connlost"] } ELSE {})
  \cup { [kind |-> "error"] }

\* what process of a simple task can do
Outcomes(self) ==
  (IF self = "PreparePaths"
   THEN { [kind |-> "ok", now |-> t] : t \in Timestamps }
   ELSE { [kind |-> "ok"] })
  \cup (IF self \in { "PreparePaths", "WriteInfo", "MoveFiles" }
        THEN { [kind |-> "error"] } ELSE {})

\* the control service after the call of task self on item it
Served(self, it, res) ==
  CASE self = "GetItemFromQueue" /\ res.kind = "job" ->
         [control EXCEPT !.queue = @ \ {res.job}]
    [] self = "SetWarcFileSizeInRedis" /\ res.kind = "ok" ->
         [control EXCEPT !.warc_size =
            @ \cup { <<it.props.ident, it.props.target_warc_file>> }]
    [] self = "MarkItemAsDone" /\ res.kind = "ok" ->
         [control EXCEPT !.done = @ \cup { it.props.ident }]
    [] OTHER -> control

\* an answer that is a failure is counted
Counted(it, res) ==
  IF res.kind \in { "none", "connlost" }
  THEN [it EXCEPT !.failures = @ + 1,
                  !.lost = IF res.kind = "connlost" THEN @ + 1 ELSE @]
  ELSE it

\* the handler that last ran on the item, what its call did, and whether a
\* cancellation request had arrived since the handler before it
Seen(it, op, self, res, requested) ==
  [it EXCEPT !.last = [op |-> op, task |-> self,
                       outcome |-> IF "aborted" \in DOMAIN res /\ res.aborted
                                   THEN "aborted" ELSE res.kind,
                       requested |-> requested],
             !.requested = FALSE]

----------------------------------------------------------------------------
(* The state machine.  A step is one handler run to its end: a task's      *)
(* enqueue, a timeout's retry, a heartbeat tick, a cancellation request.   *)
(* complete_item hands the item to the pipeline; the next task's enqueue   *)
(* is the next step for that item.                                         *)

NewItem ==
  [ task |-> 1, status |-> "queued",
    may_be_canceled |-> FALSE, canceled |-> FALSE,
    props |-> [data_dir |-> <<"data">>],
    log |-> <<>>, timeouts |-> <<>>, periodic |-> "none",
    failures |-> 0, lost |-> 0, scheduled |-> 0, calls |-> 0, requested |-> FALSE, tick |-> "none",
    last |-> [op |-> "none", task |-> "none", outcome |-> "none",
              requested |-> FALSE] ]

Init ==
  /\ items = [i \in Items |-> NewItem]
  /\ control = [queue |-> Jobs, heartbeats |-> {}, warc_size |-> {}, done |-> {}]

\* the pipeline enqueues the item into a retryable task
EnqueueRetryable(i) ==
  LET it == items[i] self == TaskOf(it) IN
  /\ it.status = "queued"
  /\ self \in RetryableTasks
  /\ \E res \in Answers(self, it) :
       /\ items' = [items EXCEPT ![i] =
            Seen(Counted(RetryableTask_enqueue(self, it, res), res),
                 "enqueue", self, res, FALSE)]
       /\ control' = Served(self, it, res)

\* the pipeline enqueues the item into a simple task
EnqueueSimple(i) ==
  LET it == items[i] self == TaskOf(it) IN
  /\ it.status = "queued"
  /\ self \in SimpleTasks
  /\ \E res \in Outcomes(self) :
       items' = [items EXCEPT ![i] =
         Seen(SimpleTask_enqueue(self, it, res), "enqueue", self, res, FALSE)]
  /\ UNCHANGED control

\* the IOLoop runs a timeout of the item whose delay has passed
RetryFires(i) ==
  LET it == items[i] IN
  \E k \in 1..Len(it.timeouts) :
    LET self == it.timeouts[k].task
        rest == [it EXCEPT !.timeouts =
                   SubSeq(@, 1, k - 1) \o SubSeq(@, k + 1, Len(@))]
    IN  \E res \in Answers(self, it) :
          LET after == retry(self, rest, res)
              ran   == after.calls # rest.calls
              did   == IF ran THEN res ELSE [kind |-> "dropped"]
          IN  /\ items' = [items EXCEPT ![i] =
                   Seen(Counted(after, did), "retry", self, did, it.requested)]
              /\ control' = IF ran THEN Served(self, it, res) ELSE control

\* the item is in the pipeline's list of items
InPipeline(it) == ~it.canceled /\ it.status \in { "queued", "running" }

\* seesaw's Pipeline.cancel_items: every item that may be canceled is
\* canceled and removed from the pipeline
CancelItems ==
  /\ \E i \in Items : InPipeline(items[i])
  /\ items' = [i \in Items |->
       IF InPipeline(items[i])
       THEN [items[i] EXCEPT !.canceled = items[i].may_be_canceled,
                             !.requested = TRUE]
       ELSE items[i]]
  /\ UNCHANGED control

\* a tick that loses the connection stops the PeriodicCallback
send_heartbeat_stops(it, kind) ==
  [item   |-> IF kind = "ok" THEN [it EXCEPT !.tick = kind]
              ELSE [it EXCEPT !.tick = kind, !.periodic = "stopped"],
   report |-> IF kind = "ok" THEN { it.props.ident } ELSE {}]

\* StartHeartbeat.send_heartbeat: the item after the tick, and what the
\* control service was told; kind is what control.heartbeat did
send_heartbeat(it, kind) ==
  [item   |-> [it EXCEPT !.tick = kind],
   report |-> IF kind = "ok" THEN { it.props.ident } ELSE {}]

\* the PeriodicCallback of the item runs send_heartbeat
SendHeartbeat(i) ==
  LET it == items[i] IN
  /\ it.periodic = "running"
  /\ \E kind \in { "ok", "connlost" } :
       LET sent == send_heartbeat(it, kind) IN
       /\ items' = [items EXCEPT ![i] = sent.item]
       /\ control' = [control EXCEPT !.heartbeats = @ \cup sent.report]

Next ==
  \/ \E i \in Items : EnqueueRetryable(i)
  \/ \E i \in Items : EnqueueSimple(i)
  \/ \E i \in Items : RetryFires(i)
  \/ \E i \in Items : SendHeartbeat(i)
  \/ CancelItems

Spec == Init /\ [][Next]_vars

\* the IOLoop runs every due timeout and the pipeline enqueues every item
\* handed to a task
FairSpec ==
  /\ Spec
  /\ \A i \in Items : WF_vars(EnqueueRetryable(i))
  /\ \A i \in Items : WF_vars(EnqueueSimple(i))
  /\ \A i \in Items : WF_vars(RetryFires(i))

----------------------------------------------------------------------------
(* StopHeartbeat on the items that can reach it: with a heartbeat, and, in *)
(* a pipeline that has no StartHeartbeat before it, without one.           *)

\* the answer of the control service that lets task self go on with job j
Granted(self, j) ==
  IF self = "GetItemFromQueue" THEN [kind |-> "job", job |-> j]
  ELSE IF self = "RelabelIfAborted" THEN [kind |-> "ok", aborted |-> FALSE]
  ELSE [kind |-> "ok"]

\* the item after the first n tasks completed it with job j; started tells
\* whether StartHeartbeat is one of them
RECURSIVE Ran(_, _, _, _)
Ran(n, j, now, started) ==
  IF n = 0 THEN NewItem
  ELSE LET it   == Ran(n - 1, j, now, started)
           self == Pipeline[n]
       IN  IF self \in RetryableTasks
           THEN Seen(RetryableTask_enqueue(self, it, Granted(self, j)),
                     "enqueue", self, Granted(self, j), FALSE)
           ELSE IF self = "StartHeartbeat" /\ ~started
           THEN complete_item(self, it)
           ELSE Seen(SimpleTask_enqueue(self, it, [kind |-> "ok", now |-> now]),
                     "enqueue", self, [kind |-> "ok"], FALSE)

StopInit ==
  \E j \in Jobs : \E now \in Timestamps : \E started \in BOOLEAN :
    LET it == Ran(Position("StopHeartbeat") - 1, j, now, started) IN
    /\ items = [i \in Items |-> it]
    /\ control = [queue |-> Jobs \ {j}, heartbeats |-> {},
                  warc_size |-> { <<it.props.ident, it.props.target_warc_file>> },
                  done |-> {}]

StopSpec == StopInit /\ [][Next]_vars

----------------------------------------------------------------------------
(* Properties *)

LaterRetryable == RetryableTasks \ { "GetItemFromQueue" }

\* C1: when the control call of a retryable task ends in connection lost,
\* the item stays running in that task and exactly one retry of that task
\* is pending for it, with the task's retry_delay.
C1_ConnectionLostSchedulesOneRetry ==
  \A i \in Items :
    LET it == items[i] IN
    it.last.outcome = "connlost" =>
      /\ it.last.task \in RetryableTasks
      /\ TaskOf(it) = it.last.task
      /\ it.status = "running"
      /\ it.timeouts = << [callback |-> "retry", task |-> it.last.task,
                           delay |-> retry_delay(it.last.task)] >>

\* a retry of the last task lost the connection again
C1_Witness ==
  \E i \in Items :
    /\ items[i].last = [op |-> "retry", task |-> "MarkItemAsDone",
                        outcome |-> "connlost", requested |-> FALSE]
    /\ items[i].failures = MaxFailures

\* C2: once an item is canceled, a retry that fires for it is dropped:
\* process is not invoked, nothing of the item or of the control service
\* changes, and no retry is scheduled.
C2_CanceledRetryIsDropped ==
  [][\A i \in Items :
       items[i].canceled =>
         /\ items'[i].calls = items[i].calls
         /\ items'[i].props = items[i].props
         /\ items'[i].log = items[i].log
         /\ items'[i].task = items[i].task
         /\ items'[i].status = items[i].status
         /\ control' = control
         /\ \/ items'[i].timeouts = items[i].timeouts
            \/ items'[i].timeouts = <<>>]_vars

\* the retry of a canceled item fired and was dropped
C2_Witness ==
  \E i \in Items :
    /\ items[i].canceled
    /\ items[i].last = [op |-> "retry", task |-> "GetItemFromQueue",
                        outcome |-> "dropped", requested |-> TRUE]
    /\ items[i].timeouts = <<>>

\* C3: while an item waits for the retry of a task other than
\* GetItemFromQueue, a cancellation request changes nothing of the item, and
\* the retry that fires after the request invokes process.
C3_CancelOnlyInReservation ==
  [][\A i \in Items :
       LET it == items[i] IN
       (TaskOf(it) \in LaterRetryable /\ it.timeouts # <<>>) =>
         /\ ~items'[i].canceled
         /\ ~items'[i].may_be_canceled
         /\ CancelItems => items'[i] = [it EXCEPT !.requested = TRUE]
         /\ (RetryFires(i) /\ it.requested) =>
              /\ items'[i].calls = it.calls + 1
              /\ items'[i].last.requested]_vars

\* a retry of RelabelIfAborted ran process after a cancellation request
C3_Witness ==
  \E i \in Items :
    /\ items[i].last = [op |-> "retry", task |-> "RelabelIfAborted",
                        outcome |-> "aborted", requested |-> TRUE]
    /\ TaskOf(items[i]) = "WriteInfo"
    /\ ~items[i].canceled

C5_JobHeldNeverCancelable ==
  \A i \in Items :
    Has(items[i], "ident") => ~items[i].may_be_canceled /\ ~items[i].canceled

\* an item with a job waits for the retry of a later task
C5_Witness ==
  \E i \in Items :
    /\ Has(items[i], "ident")
    /\ TaskOf(items[i]) = "SetWarcFileSizeInRedis"
    /\ items[i].timeouts # <<>>
    /\ items[i].requested

\* C6: ident is assigned only by GetItemFromQueue when reserve_job returns a
\* job, to that job's ident, and never changes or disappears afterwards.
C6_IdentAssignedOnce ==
  [][\A i \in Items :
       LET it == items[i] IN
       /\ Has(it, "ident") =>
            Has(items'[i], "ident") /\ items'[i].props.ident = it.props.ident
       /\ (~Has(it, "ident") /\ Has(items'[i], "ident")) =>
            /\ TaskOf(it) = "GetItemFromQueue"
            /\ items'[i].last.outcome = "job"
            /\ \E j \in control.queue \ control'.queue :
                 items'[i].props.ident = j.ident]_vars

\* an item went through the whole pipeline with retries and heartbeats
C6_Witness ==
  \E i \in Items :
    /\ items[i].status = "completed"
    /\ Has(items[i], "ident")
    /\ items[i].failures = MaxFailures
    /\ items[i].tick # "none"

\* C7: the item has a heartbeat handle, and its PeriodicCallback runs,
\* exactly while the item is between StartHeartbeat and StopHeartbeat and
\* its pipeline run has not ended.
C7_HeartbeatExactlyWhileJobHeld ==
  \A i \in Items :
    LET it == items[i]
        held == /\ it.task > Position("StartHeartbeat")
                /\ it.task <= Position("StopHeartbeat")
                /\ it.status \in { "queued", "running" }
    IN  /\ Has(it, "heartbeat") <=> held
        /\ it.periodic = "running" <=> held

\* C8: an item waiting for the retry of a task eventually leaves the task,
\* unless it is canceled or the control call raises another error.
C8_RetriesUntilSuccess ==
  \A i \in Items : \A t \in RetryableTasks :
    (TaskOf(items[i]) = t /\ items[i].timeouts # <<>>)
      ~> \/ TaskOf(items[i]) # t
         \/ items[i].canceled
         \/ items[i].last.outcome = "error"

\* a task completed the item on the retry after MaxFailures lost connections
C8_Witness ==
  \E i \in Items :
    /\ items[i].last = [op |-> "retry", task |-> "SetWarcFileSizeInRedis",
                        outcome |-> "ok", requested |-> FALSE]
    /\ items[i].failures = MaxFailures
    /\ Len(SelectSeq(items[i].log,
                     LAMBDA l : l.task = "SetWarcFileSizeInRedis"
                                /\ l.arg = <<"Retrying">>)) = MaxFailures
    /\ TaskOf(items[i]) = "StopHeartbeat"

\* C9: after a failure other than connection lost inside process, the item
\* is failed in that task and no retry is pending.
C9_OtherFailuresFailTheItem ==
  \A i \in Items :
    LET it == items[i] IN
    it.last.outcome = "error" =>
      /\ it.status = "failed"
      /\ TaskOf(it) = it.last.task
      /\ it.timeouts = <<>>

\* C10: when RelabelIfAborted completes an item whose job is aborted, it
\* sets aborted and the two target paths, built from the base filename with
\* -aborted appended; the source paths, item_dir and cookie_jar keep their
\* values.  When the job is not aborted no attribute changes.
C10_RelabelChangesOnlyTargets ==
  [][\A i \in Items :
       LET it == items[i]
           p  == it.props
           q  == items'[i].props
       IN  (TaskOf(it) = "RelabelIfAborted" /\ items'[i].task = it.task + 1) =>
             IF items'[i].last.outcome = "aborted"
             THEN /\ q.aborted = TRUE
                  /\ q.target_warc_file =
                       p.data_dir \o <<"/">> \o p.warc_file_base
                         \o <<"-aborted", ".warc.gz">>
                  /\ q.target_info_file =
                       p.data_dir \o <<"/">> \o p.warc_file_base
                         \o <<"-aborted", ".json">>
                  /\ q.target_warc_file # p.target_warc_file
                  /\ q.target_info_file # p.target_info_file
                  /\ \A k \in (DOMAIN q) \ { "aborted", "warc_file_base",
                                             "target_warc_file", "target_info_file" } :
                       k \in DOMAIN p /\ q[k] = p[k]
                  /\ { "source_warc_file", "source_info_file", "item_dir",
                       "cookie_jar" } \subseteq DOMAIN q
             ELSE q = p]_vars

\* RelabelIfAborted completed an item whose job is aborted, on a retry
C10_Witness ==
  \E i \in Items :
    /\ items[i].last.task = "RelabelIfAborted"
    /\ items[i].last.outcome = "aborted"
    /\ items[i].last.op = "retry"
    /\ items[i].props.aborted
    /\ TaskOf(items[i]) = "WriteInfo"

WarningLine ==
  Line("Warning: couldn't find a heartbeat to stop", "StopHeartbeat", 0, <<>>)

\* C11: StopHeartbeat never fails the item: the item goes on to the next
\* task without a handle.  With no handle it logs the warning and nothing
\* else changes; with a handle it stops the PeriodicCallback and logs no
\* warning.  After StopHeartbeat no heartbeat is sent for the item.
C11_StopHeartbeatStopsOrWarns ==
  [][\A i \in Items :
       LET it  == items[i]
           aft == items'[i]
           starting == Line("Starting", "StopHeartbeat", 0, <<>>)
           finished == Line("Finished", "StopHeartbeat", 0, <<>>)
       IN  /\ (/\ TaskOf(it) = "StopHeartbeat"
               /\ it.status = "queued"
               /\ aft.last.task = "StopHeartbeat") =>
                 /\ aft.status = "queued"
                 /\ aft.task = it.task + 1
                 /\ ~Has(aft, "heartbeat")
                 /\ \A k \in DOMAIN aft.props : aft.props[k] = it.props[k]
                 /\ DOMAIN it.props \ { "heartbeat" } = DOMAIN aft.props
                 /\ IF Has(it, "heartbeat")
                    THEN /\ aft.periodic = "stopped"
                         /\ aft.log = it.log \o << starting, finished >>
                    ELSE /\ aft.periodic = it.periodic
                         /\ aft.log = it.log \o << starting, WarningLine, finished >>
           /\ it.task > Position("StopHeartbeat") =>
                 /\ ~SendHeartbeat(i)
                 /\ aft.tick = it.tick
                 /\ aft.periodic # "running"
                 /\ control'.heartbeats = control.heartbeats]_vars

\* StopHeartbeat found no handle, logged the warning, and the item went on
C11_Witness ==
  \E i \in Items :
    /\ items[i].last.task = "MarkItemAsDone"
    /\ items[i].last.outcome = "ok"
    /\ items[i].status = "completed"
    /\ items[i].periodic = "none"
    /\ ~Has(items[i], "heartbeat")
    /\ Len(SelectSeq(items[i].log, LAMBDA l : l = WarningLine)) = 1

\* the retry notices in the item's log
RetryNotices(it) == SelectSeq(it.log, LAMBDA l : l.arg = <<"Retrying">>)

\* C12 as stated: the log holds one retry notice for every retry scheduled.
C12_EveryRetryLogged ==
  \A i \in Items : Len(RetryNotices(items[i])) = items[i].scheduled

\* C12: one retry is scheduled for every connection-lost or no-job answer,
\* and the log holds one retry notice, naming the connection loss, the task
\* and its delay, for every connection-lost answer and none for a no-job
\* answer.
C12_EveryConnectionLossLogged ==
  \A i \in Items :
    LET it == items[i] IN
    /\ it.scheduled = it.failures
    /\ Len(RetryNotices(it)) = it.lost
    /\ \A n \in 1..Len(RetryNotices(it)) :
         LET l == RetryNotices(it)[n] IN
         /\ l.text = "Lost connection to ArchiveBot controller"
         /\ l.task \in RetryableTasks
         /\ l.delay = retry_delay(l.task)

\* the reservation lost the connection MaxFailures times in a row, then got
\* a job, and the item advanced with MaxFailures notices in its log
C12_Witness ==
  \E i \in Items :
    /\ items[i].last = [op |-> "retry", task |-> "GetItemFromQueue",
                        outcome |-> "job", requested |-> FALSE]
    /\ items[i].lost = MaxFailures
    /\ Len(RetryNotices(items[i])) = MaxFailures
    /\ TaskOf(items[i]) = "StartHeartbeat"

InfoKeys ==
  { "aborted", "fetch_depth", "pipeline_id", "queued_at", "started_by",
    "started_in", "url" }

\* C13: the record WriteInfo stores has exactly the seven keys; aborted is
\* the item's aborted flag, or FALSE when the item has none, and the other
\* six are the item's attributes of the same name.
C13_InfoRecord ==
  \A i \in Items :
    LET it == items[i] IN
    Has(it, "info") =>
      /\ DOMAIN it.props.info = InfoKeys
      /\ it.props.info.aborted =
           (IF Has(it, "aborted") THEN it.props.aborted ELSE FALSE)
      /\ \A k \in InfoKeys \ { "aborted" } :
           Has(it, k) /\ it.props.info[k] = it.props[k]

\* WriteInfo stored the record of an item whose aborted flag was never set
C13_Witness ==
  \E i \in Items :
    /\ items[i].last.task = "WriteInfo"
    /\ items[i].last.outcome = "ok"
    /\ ~Has(items[i], "aborted")
    /\ Has(items[i], "info")
    /\ items[i].props.info.aborted = FALSE

\* C14: SetFetchDepth sets recursive, level and depth to empty strings for
\* fetch_depth "shallow" and to --recursive, --level and the fetch_depth
\* otherwise, and changes no other attribute.
C14_DepthTranslation ==
  [][\A i \in Items :
       LET it  == items[i]
           aft == items'[i]
       IN  (/\ TaskOf(it) = "SetFetchDepth"
            /\ it.status = "queued"
            /\ aft.last.task = "SetFetchDepth") =>
             /\ aft.task = it.task + 1
             /\ DOMAIN aft.props = DOMAIN it.props \cup { "recursive", "level", "depth" }
             /\ \A k \in DOMAIN it.props \ { "recursive", "level", "depth" } :
                  aft.props[k] = it.props[k]
             /\ IF it.props.fetch_depth = <<"shallow">>
                THEN /\ aft.props.recursive = <<>>
                     /\ aft.props.level = <<>>
                     /\ aft.props.depth = <<>>
                ELSE /\ aft.props.recursive = <<"--recursive">>
                     /\ aft.props.level = <<"--level">>
                     /\ aft.props.depth = it.props.fetch_depth]_vars

\* SetFetchDepth translated a depth that is not "shallow"
C14_Witness ==
  \E i \in Items :
    /\ items[i].last.task = "SetFetchDepth"
    /\ items[i].props.fetch_depth = <<"5">>
    /\ items[i].props.depth = <<"5">>
    /\ items[i].props.recursive = <<"--recursive">>

\* the attributes GetItemFromQueue takes from the job
JobKeys ==
  { "fetch_depth", "ident", "log_key", "pipeline_id", "queued_at", "slug",
    "started_by", "started_in", "url" }

\* C15: after reserve_job returned no job the item is still running in
\* GetItemFromQueue with no job attribute, may be canceled, and has exactly
\* one retry pending; after it returned a job the item has that job's
\* attributes, has been handed to the next task and has no retry pending.
C15_ReservationOutcomes ==
  \A i \in Items :
    LET it == items[i] IN
    it.last.task = "GetItemFromQueue" =>
      /\ it.last.outcome = "none" =>
           /\ TaskOf(it) = "GetItemFromQueue"
           /\ it.status = "running"
           /\ JobKeys \cap DOMAIN it.props = {}
           /\ it.may_be_canceled
           /\ it.timeouts = << [callback |-> "retry", task |-> "GetItemFromQueue",
                                delay |-> ReserveRetryDelay] >>
      /\ it.last.outcome = "job" =>
           /\ it.task = Position("GetItemFromQueue") + 1
           /\ it.status = "queued"
           /\ it.timeouts = <<>>
           /\ ~it.may_be_canceled
           /\ JobKeys \subseteq DOMAIN it.props
           /\ it.props.pipeline_id = PipelineId
           /\ \E j \in Jobs \ control.queue :
                \A k \in JobKeys \ { "pipeline_id" } : it.props[k] = j[k]

\* reserve_job returned no job on a retry
C15_Witness ==
  \E i \in Items :
    /\ items[i].last = [op |-> "retry", task |-> "GetItemFromQueue",
                        outcome |-> "none", requested |-> FALSE]
    /\ items[i].scheduled = 2
    /\ ~items[i].canceled

\* C16: a canceled item is in GetItemFromQueue, has no ident and no other
\* job attribute, has no heartbeat, and its job was never taken.
C16_CanceledNeverHoldsJob ==
  \A i \in Items :
    LET it == items[i] IN
    it.canceled =>
      /\ TaskOf(it) = "GetItemFromQueue"
      /\ it.status = "running"
      /\ JobKeys \cap DOMAIN it.props = {}
      /\ ~Has(it, "heartbeat")
      /\ it.periodic = "none"
      /\ it.tick = "none"
      /\ \A l \in 1..Len(it.log) : it.log[l].task = "GetItemFromQueue"

\* the retry of a canceled item was dropped and no job was taken
C16_Witness ==
  \E i \in Items :
    /\ items[i].canceled
    /\ items[i].last.outcome = "dropped"
    /\ items[i].timeouts = <<>>
    /\ control.queue = Jobs

\* the lines that log the start of task t for the item
StartLines(it, t) ==
  SelectSeq(it.log, LAMBDA l : l.text = "Starting" /\ l.task = t)

\* C17: the item moves through the tasks one at a time and in order; every
\* task starts it at most once; a handler that runs for the item, and every
\* invocation of process, is that of the task the item is in; and a retry
\* is pending only for the task the item is running in.
C17_OneTaskAtATimeInOrder ==
  [][\A i \in Items :
       LET it  == items[i]
           aft == items'[i]
       IN  /\ aft.task \in { it.task, it.task + 1 }
           /\ aft.task = it.task + 1 =>
                /\ aft.status \in { "queued", "completed" }
                /\ aft.last.task = TaskOf(it)
                /\ aft.last.outcome \in { "ok", "job", "aborted" }
           /\ aft.last # it.last =>
                /\ aft.last.task = TaskOf(it)
                /\ it.status \in { "queued", "running" }
           /\ aft.calls # it.calls =>
                /\ aft.calls = it.calls + 1
                /\ aft.last.task = TaskOf(it)
                /\ TaskOf(it) \in RetryableTasks
                /\ it.status \in { "queued", "running" }
           /\ \A n \in 1..NumTasks :
                /\ Len(StartLines(aft, Pipeline[n])) <= 1
                /\ Len(StartLines(aft, Pipeline[n])) = 1 => n <= aft.task
           /\ \A k \in 1..Len(aft.timeouts) :
                /\ aft.timeouts[k].task = TaskOf(aft)
                /\ aft.status = "running"]_vars

\* the item went through every task once, with retries on the way
C17_Witness ==
  \E i \in Items :
    /\ items[i].status = "completed"
    /\ items[i].task = NumTasks + 1
    /\ items[i].calls = Cardinality(RetryableTasks) + MaxFailures
    /\ \A n \in 1..NumTasks : Len(StartLines(items[i], Pipeline[n])) = 1

\* C18: the PeriodicCallback runs while the item has the handle, whatever
\* the task the item is in; a tick tells the control service the item's
\* ident or, when the connection is lost, nothing; it leaves the item, its
\* task, flags, log, timeouts and the running timer as they were.
C18_HeartbeatIndependent ==
  /\ [](\A i \in Items :
          Has(items[i], "heartbeat") => ENABLED SendHeartbeat(i))
  /\ [][\A i \in Items :
          LET it  == items[i]
              aft == items'[i]
          IN  SendHeartbeat(i) =>
                /\ aft = [it EXCEPT !.tick = aft.tick]
                /\ aft.tick \in { "ok", "connlost" }
                /\ aft.periodic = "running"
                /\ Has(aft, "heartbeat")
                /\ control' = [control EXCEPT !.heartbeats =
                     @ \cup (IF aft.tick = "ok" THEN { it.props.ident } ELSE {})]]_vars

\* a tick lost the connection while the item waited for the retry of a
\* later task, and the timer is still running
C18_Witness ==
  \E i \in Items :
    /\ items[i].tick = "connlost"
    /\ items[i].periodic = "running"
    /\ TaskOf(items[i]) = "SetWarcFileSizeInRedis"
    /\ items[i].timeouts # <<>>
    /\ control.heartbeats # {}

\* how many times token tok occurs in the string
Count(str, tok) == Len(SelectSeq(str, LAMBDA x : x = tok))

\* C19: whatever the number of retries of RelabelIfAborted, the base
\* filename is the one PreparePaths built, with -aborted appended once when
\* the stage found the job aborted and not at all otherwise (also while the
\* stage still waits for a retry), and the target paths are built from it.
C19_RelabelRetryIdempotent ==
  \A i \in Items :
    LET it == items[i]
        p  == it.props
        aborted == /\ it.task > Position("RelabelIfAborted")
                   /\ Has(it, "aborted")
                   /\ p.aborted
        n == IF aborted THEN 1 ELSE 0
    IN  /\ Has(it, "aborted") => it.task > Position("RelabelIfAborted")
        /\ Has(it, "warc_file_base") =>
             /\ Count(p.warc_file_base, "-aborted") = n
             /\ Count(p.target_warc_file, "-aborted") = n
             /\ Count(p.target_info_file, "-aborted") = n
             /\ Count(p.source_warc_file, "-aborted") = 0
             /\ Count(p.source_info_file, "-aborted") = 0
             /\ \E now \in Timestamps :
                  p.warc_file_base =
                    p.slug \o <<"-">> \o now \o <<"-">> \o Slice(p.ident, 5)
                      \o (IF aborted THEN <<"-aborted">> ELSE <<>>)
             /\ p.target_warc_file =
                  p.data_dir \o <<"/">> \o p.warc_file_base \o <<".warc.gz">>
             /\ p.target_info_file =
                  p.data_dir \o <<"/">> \o p.warc_file_base \o <<".json">>

\* RelabelIfAborted found the job aborted on the retry after MaxFailures
\* lost connections
C19_Witness ==
  \E i \in Items :
    /\ items[i].last = [op |-> "retry", task |-> "RelabelIfAborted",
                        outcome |-> "aborted", requested |-> FALSE]
    /\ Len(SelectSeq(RetryNotices(items[i]),
                     LAMBDA l : l.task = "RelabelIfAborted")) = MaxFailures
    /\ Count(items[i].props.target_warc_file, "-aborted") = 1

\* C20: the item has at most one retry pending, for the task it is running
\* in; a retry is scheduled only by an invocation of process that leaves
\* the item in its task; and process is invoked only by the enqueue of an
\* item handed to the task or by the one pending retry, which it consumes.
C20_OnePendingRetry ==
  [][\A i \in Items :
       LET it  == items[i]
           aft == items'[i]
       IN  /\ Len(it.timeouts) <= 1
           /\ Len(aft.timeouts) <= 1
           /\ aft.timeouts # <<>> =>
                /\ aft.timeouts[1].task = TaskOf(aft)
                /\ aft.timeouts[1].callback = "retry"
                /\ aft.status = "running"
           /\ aft.scheduled # it.scheduled =>
                /\ aft.scheduled = it.scheduled + 1
                /\ aft.calls = it.calls + 1
                /\ aft.task = it.task
                /\ aft.status = "running"
                /\ aft.timeouts # <<>>
           /\ aft.calls # it.calls =>
                \/ /\ it.status = "queued"
                   /\ it.timeouts = <<>>
                   /\ aft.last.op = "enqueue"
                \/ /\ it.status = "running"
                   /\ it.timeouts # <<>>
                   /\ aft.last.op = "retry"
                   /\ \/ aft.timeouts = <<>>
                      \/ aft.scheduled = it.scheduled + 1]_vars

\* a retry fired, process ran and scheduled the next retry
C20_Witness ==
  \E i \in Items :
    /\ items[i].last.op = "retry"
    /\ items[i].last.outcome = "connlost"
    /\ items[i].scheduled = MaxFailures
    /\ Len(items[i].timeouts) = 1
    /\ TaskOf(items[i]) = "MarkItemAsDone"

====
